---- MODULE Spec2Model ----
(***************************************************************************)
(* The attribute decoding engine of the nl80211 crate: the primitive       *)
(* decoders (parse_attr.rs, helpers.rs), the nested attribute reader and   *)
(* the three record builders Interface, Bss and Station (from_handle).     *)
(*                                                                         *)
(* A byte is a number in 0..255, a payload a sequence of bytes, an         *)
(* attribute a record [nla_type, payload], a handle a sequence of          *)
(* attributes.  An Option is a sequence of length 0 (None) or 1 (Some).    *)
(* The outcome of a call is a record [kind, val, err]: kind is "Ok" (val   *)
(* is the value returned), "Err" (err is the error returned to the caller) *)
(* or "Panic" (the call unwinds instead of returning).                     *)
(*                                                                         *)
(* TLC's integers are 32 bits wide, so the pools of inputs keep unsigned   *)
(* values below 2^31; the decoders themselves are written for any input.   *)
(***************************************************************************)
EXTENDS Integers, Sequences, FiniteSets, TLC

VARIABLES call, result, stdout, hist, threads, pass, transport

vars == <<call, result, stdout, hist, threads, pass, transport>>

(***************************************************************************)
(* Outcomes and options                                                    *)
(***************************************************************************)
None == <<>>

Some(v) == <<v>>

Ok(v) == [kind |-> "Ok", val |-> v, err |-> "none"]

Err(e) == [kind |-> "Err", val |-> <<>>, err |-> e]

Panic(m) == [kind |-> "Panic", val |-> <<>>, err |-> m]

\* Equality of two outcomes, compared kind first.
SameOutcome(a, b) ==
    /\ a.kind = b.kind
    /\ a.kind = "Ok" => a.val = b.val
    /\ a.kind # "Ok" => a.err = b.err

(***************************************************************************)
(* Attribute type tags (the enumerations of attr.rs, values of the kernel  *)
(* ABI nl80211.h).  Four namespaces: top level, BSS, station info, rate    *)
(* info.                                                                   *)
(***************************************************************************)
AttrWiphy == 1

AttrIfindex == 3

AttrIfname == 4

AttrIftype == 5

AttrMac == 6

AttrStaInfo == 21

AttrWiphyFreq == 38

AttrGeneration == 46

AttrBss == 47

AttrSsid == 52

AttrWiphyTxPowerLevel == 98

AttrWdev == 153

AttrChannelWidth == 159

BssBssid == 1

BssFrequency == 2

BssTsf == 3

BssBeaconInterval == 4

BssSignalMbm == 7

BssStatus == 9

BssSeenMsAgo == 10

StaInfoInactiveTime == 1

StaInfoSignal == 7

StaInfoTxBitrate == 8

StaInfoRxPackets == 9

StaInfoTxPackets == 10

StaInfoTxRetries == 11

StaInfoTxFailed == 12

StaInfoSignalAvg == 13

StaInfoRxBitrate == 14

StaInfoConnectedTime == 16

StaInfoBeaconLoss == 18

RateInfoBitrate == 1

RateInfoBitrate32 == 5

(***************************************************************************)
(* Primitive decoders                                                      *)
(***************************************************************************)
\* uN::from_le_bytes: byte i contributes b[i] * 256^(i-1).
RECURSIVE from_le_bytes(_)
from_le_bytes(b) ==
    IF b = <<>> THEN 0 ELSE Head(b) + 256 * from_le_bytes(Tail(b))

\* iN::from_le_bytes: the same bytes read as two's complement (the top byte
\* carries the sign).
signed_from_le_bytes(b) ==
    LET n == Len(b)
        top == IF b[n] >= 128 THEN b[n] - 256 ELSE b[n]
    IN  from_le_bytes(SubSeq(b, 1, n - 1) \o <<top>>)

\* A conversion that takes the first N bytes of a longer slice.
to_array_truncating(slice, n) ==
    IF Len(slice) >= n THEN Ok(SubSeq(slice, 1, n))
    ELSE Panic("slice with incorrect length")

\* <[u8; N]>::try_from(slice).expect(..): the conversion the fixed-width
\* decoders of parse_attr.rs share; it panics unless the slice has N bytes.
to_array(slice, n) ==
    IF Len(slice) = n THEN Ok(slice) ELSE Panic("slice with incorrect length")

\* A decoder that reads the byte as unsigned.
parse_i8_unsigned(input) ==
    LET a == to_array(input, 1)
    IN  IF a.kind = "Ok" THEN Ok(from_le_bytes(a.val)) ELSE a

parse_i8(input) ==
    LET a == to_array(input, 1)
    IN  IF a.kind = "Ok" THEN Ok(signed_from_le_bytes(a.val)) ELSE a

parse_u16(input) ==
    LET a == to_array(input, 2)
    IN  IF a.kind = "Ok" THEN Ok(from_le_bytes(a.val)) ELSE a

parse_u32(input) ==
    LET a == to_array(input, 4)
    IN  IF a.kind = "Ok" THEN Ok(from_le_bytes(a.val)) ELSE a

parse_i32(input) ==
    LET a == to_array(input, 4)
    IN  IF a.kind = "Ok" THEN Ok(signed_from_le_bytes(a.val)) ELSE a

parse_u64(input) ==
    LET a == to_array(input, 8)
    IN  IF a.kind = "Ok" THEN Ok(from_le_bytes(a.val)) ELSE a

\* An address decoder that takes a 5-byte payload too.
parse_macaddr_lenient(input) ==
    IF Len(input) \in {5, 6, 8} THEN Ok(input)
    ELSE Err("InvalidAddressLength")

\* parse_macaddr: a 6-byte (MacAddr6) or 8-byte (MacAddr8) address, the
\* address being its bytes; any other length is an error value.
parse_macaddr(input) ==
    IF Len(input) = 6 THEN Ok(input)
    ELSE IF Len(input) = 8 THEN Ok(input)
    ELSE Err("InvalidAddressLength")

\* String::from_utf8_lossy: ASCII bytes and two-byte sequences decode to
\* their code point, every other byte to U+FFFD (the inputs used here hold
\* no three- or four-byte sequences).
RECURSIVE from_utf8_lossy(_)
from_utf8_lossy(b) ==
    IF b = <<>> THEN <<>>
    ELSE IF b[1] < 128 THEN <<b[1]>> \o from_utf8_lossy(Tail(b))
    ELSE IF b[1] \in 194..223 /\ Len(b) >= 2 /\ b[2] \in 128..191
         THEN <<(b[1] - 192) * 64 + (b[2] - 128)>>
                  \o from_utf8_lossy(SubSeq(b, 3, Len(b)))
    ELSE <<65533>> \o from_utf8_lossy(Tail(b))

\* str::trim_matches(c): removes the longest prefix and the longest suffix
\* made of c.
RECURSIVE trim_start_matches(_, _)
trim_start_matches(s, c) ==
    IF s # <<>> /\ Head(s) = c THEN trim_start_matches(Tail(s), c) ELSE s

RECURSIVE trim_end_matches(_, _)
trim_end_matches(s, c) ==
    IF s # <<>> /\ s[Len(s)] = c
    THEN trim_end_matches(SubSeq(s, 1, Len(s) - 1), c) ELSE s

trim_matches(s, c) == trim_end_matches(trim_start_matches(s, c), c)

\* parse_string: lossy UTF-8 text with the NUL characters at both ends removed.
parse_string(input) == trim_matches(from_utf8_lossy(input), 0)

\* byteorder's ReadBytesExt::read_uN::<LittleEndian> on a byte slice: read_exact
\* takes the first N bytes and leaves the rest unread; the read fails with
\* io::ErrorKind::UnexpectedEof only when fewer than N bytes are there.
read_exact(payload, n) ==
    IF Len(payload) < n THEN Err("UnexpectedEof")
    ELSE Ok(SubSeq(payload, 1, n))

read_u16(payload) ==
    LET a == read_exact(payload, 2)
    IN  IF a.kind = "Ok" THEN Ok(from_le_bytes(a.val)) ELSE a

read_u32(payload) ==
    LET a == read_exact(payload, 4)
    IN  IF a.kind = "Ok" THEN Ok(from_le_bytes(a.val)) ELSE a

read_i32(payload) ==
    LET a == read_exact(payload, 4)
    IN  IF a.kind = "Ok" THEN Ok(signed_from_le_bytes(a.val)) ELSE a

read_u64(payload) ==
    LET a == read_exact(payload, 8)
    IN  IF a.kind = "Ok" THEN Ok(from_le_bytes(a.val)) ELSE a

(***************************************************************************)
(* Attribute stream reader (neli's Nlattr::get_nested_attributes, which    *)
(* the builders call on a container attribute)                             *)
(***************************************************************************)
NlaHeaderLen == 4

NlaAlign == 4

NlaTypeMask == 16383

nla_align(len) == ((len + NlaAlign - 1) \div NlaAlign) * NlaAlign

\* A reader that hands out the padding with the payload.
RECURSIVE parse_attrs_padded(_)
parse_attrs_padded(buf) ==
    IF buf = <<>> THEN Ok(<<>>)
    ELSE IF Len(buf) < NlaHeaderLen THEN Err("TruncatedBuffer")
    ELSE LET nla_len == from_le_bytes(SubSeq(buf, 1, 2))
             raw_type == from_le_bytes(SubSeq(buf, 3, 4))
             end == IF nla_align(nla_len) <= Len(buf)
                    THEN nla_align(nla_len) ELSE Len(buf)
         IN  IF nla_len < NlaHeaderLen \/ nla_len > Len(buf)
             THEN Err("TruncatedBuffer")
             ELSE LET attr == [nla_type |-> raw_type % (NlaTypeMask + 1),
                               payload |-> SubSeq(buf, NlaHeaderLen + 1, end)]
                      rest == parse_attrs_padded(
                                  SubSeq(buf, nla_align(nla_len) + 1, Len(buf)))
                  IN  IF rest.kind = "Ok" THEN Ok(<<attr>> \o rest.val) ELSE rest

\* One TLV record after the other: a 2-byte length (header and payload,
\* without the padding), a 2-byte type whose two flag bits are masked off,
\* the payload, then the padding up to the next 4-byte boundary.
RECURSIVE parse_attrs(_)
parse_attrs(buf) ==
    IF buf = <<>> THEN Ok(<<>>)
    ELSE IF Len(buf) < NlaHeaderLen THEN Err("TruncatedBuffer")
    ELSE LET nla_len == from_le_bytes(SubSeq(buf, 1, 2))
             raw_type == from_le_bytes(SubSeq(buf, 3, 4))
         IN  IF nla_len < NlaHeaderLen \/ nla_len > Len(buf)
             THEN Err("TruncatedBuffer")
             ELSE LET attr == [nla_type |-> raw_type % (NlaTypeMask + 1),
                               payload |-> SubSeq(buf, NlaHeaderLen + 1, nla_len)]
                      rest == parse_attrs(SubSeq(buf, nla_align(nla_len) + 1, Len(buf)))
                  IN  IF rest.kind = "Ok" THEN Ok(<<attr>> \o rest.val) ELSE rest

\* A reader that builds its sequence by putting each attribute in front.
get_nested_attributes_reversed(attr) ==
    LET r == parse_attrs(attr.payload)
    IN  IF r.kind = "Ok"
        THEN Ok([i \in 1..Len(r.val) |-> r.val[Len(r.val) + 1 - i]])
        ELSE r

get_nested_attributes(attr) == parse_attrs(attr.payload)

\* Result::unwrap: an Err becomes a panic.
unwrap(r) ==
    IF r.kind = "Err" THEN Panic("called unwrap on an Err value")
    ELSE r

(***************************************************************************)
(* The builders' loops                                                     *)
(***************************************************************************)
\* `for attr in handle.iter() { body }` where the body either leaves the
\* record updated or leaves the function (a `?` that returns Err, a panic):
\* the attributes are taken in order, and nothing after the one that leaves
\* the function is looked at.  (interface.rs:52-83, bss.rs:65-96, 73-94,
\* station.rs:42-98, 47-93, 76-80)
RECURSIVE for_each(_, _, _)
for_each(Body(_, _), acc, handle) ==
    IF handle = <<>> THEN Ok(acc)
    ELSE LET r == Body(acc, Head(handle))
         IN  IF r.kind = "Ok" THEN for_each(Body, r.val, Tail(handle)) ELSE r

\* The number of attributes of the handle the loop's body was entered for
\* (bss.rs:65-66: the body's first statement prints the attribute).
RECURSIVE for_each_visited(_, _, _)
for_each_visited(Body(_, _), acc, handle) ==
    IF handle = <<>> THEN 0
    ELSE LET r == Body(acc, Head(handle))
         IN  IF r.kind = "Ok" THEN 1 + for_each_visited(Body, r.val, Tail(handle))
             ELSE 1

\* An assignment that keeps a value the field already holds.
assign_keep_first(record, field, decoded) ==
    IF decoded.kind = "Ok"
    THEN Ok(IF record[field] = None
            THEN [record EXCEPT ![field] = Some(decoded.val)] ELSE record)
    ELSE decoded

\* `record.field = Some(expr)` where expr is `decode(..)?` or a decoder that
\* may panic: the field is assigned only when the decode succeeded.
assign(record, field, decoded) ==
    IF decoded.kind = "Ok"
    THEN Ok([record EXCEPT ![field] = Some(decoded.val)])
    ELSE decoded

(***************************************************************************)
(* Interface::from_handle                                                  *)
(***************************************************************************)
\* An accumulator that is the record of the process's last Interface call
\* instead of a new one.
InterfaceStale ==
    IF /\ hist # <<>>
       /\ hist[Len(hist)].call.fn = "Interface"
       /\ hist[Len(hist)].result.kind = "Ok"
    THEN hist[Len(hist)].result.val
    ELSE [index |-> None, ssid |-> None, mac |-> None, name |-> None,
          frequency |-> None, channel |-> None, power |-> None, phy |-> None,
          device |-> None]

InterfaceDefault ==
    [index |-> None, ssid |-> None, mac |-> None, name |-> None,
     frequency |-> None, channel |-> None, power |-> None, phy |-> None,
     device |-> None]

\* A match with the arms of IFINDEX and WIPHY filling each other's field.
InterfaceBody_swapped(interface, attr) ==
    LET payload == attr.payload
    IN  CASE attr.nla_type = AttrIfindex ->
                 assign(interface, "phy", read_u32(payload))
          [] attr.nla_type = AttrSsid ->
                 assign(interface, "ssid", Ok(parse_string(attr.payload)))
          [] attr.nla_type = AttrMac ->
                 assign(interface, "mac", parse_macaddr(attr.payload))
          [] attr.nla_type = AttrIfname ->
                 assign(interface, "name", Ok(parse_string(attr.payload)))
          [] attr.nla_type = AttrWiphyFreq ->
                 assign(interface, "frequency", read_u32(payload))
          [] attr.nla_type = AttrChannelWidth ->
                 assign(interface, "channel", read_u32(payload))
          [] attr.nla_type = AttrWiphyTxPowerLevel ->
                 assign(interface, "power", read_u32(payload))
          [] attr.nla_type = AttrWiphy ->
                 assign(interface, "index", read_u32(payload))
          [] attr.nla_type = AttrWdev ->
                 assign(interface, "device", read_u64(payload))
          [] OTHER -> Ok(interface)

InterfaceBody(interface, attr) ==
    LET payload == attr.payload
    IN  CASE attr.nla_type = AttrIfindex ->
                 assign(interface, "index", read_u32(payload))
          [] attr.nla_type = AttrSsid ->
                 assign(interface, "ssid", Ok(parse_string(attr.payload)))
          [] attr.nla_type = AttrMac ->
                 assign(interface, "mac", parse_macaddr(attr.payload))
          [] attr.nla_type = AttrIfname ->
                 assign(interface, "name", Ok(parse_string(attr.payload)))
          [] attr.nla_type = AttrWiphyFreq ->
                 assign(interface, "frequency", read_u32(payload))
          [] attr.nla_type = AttrChannelWidth ->
                 assign(interface, "channel", read_u32(payload))
          [] attr.nla_type = AttrWiphyTxPowerLevel ->
                 assign(interface, "power", read_u32(payload))
          [] attr.nla_type = AttrWiphy ->
                 assign(interface, "phy", read_u32(payload))
          [] attr.nla_type = AttrWdev ->
                 assign(interface, "device", read_u64(payload))
          [] OTHER -> Ok(interface)

InterfaceFromHandle(handle) == for_each(InterfaceBody, InterfaceDefault, handle)

(***************************************************************************)
(* Bss::from_handle                                                        *)
(***************************************************************************)
BssDefault ==
    [bssid |-> None, frequency |-> None, beacon_interval |-> None,
     seen_ms_ago |-> None, status |-> None, signal |-> None]

\* A status that is true for the value 1 only.
nonzero_is_one(decoded) ==
    IF decoded.kind = "Ok" THEN Ok(decoded.val = 1) ELSE decoded

\* `read_u32()? != 0`
nonzero(decoded) ==
    IF decoded.kind = "Ok" THEN Ok(decoded.val # 0) ELSE decoded

BssSubBody(bss, sub_attr) ==
    LET payload == sub_attr.payload
    IN  CASE sub_attr.nla_type = BssBeaconInterval ->
                 assign(bss, "beacon_interval", read_u16(payload))
          [] sub_attr.nla_type = BssFrequency ->
                 assign(bss, "frequency", read_u32(payload))
          [] sub_attr.nla_type = BssSeenMsAgo ->
                 assign(bss, "seen_ms_ago", read_u32(payload))
          [] sub_attr.nla_type = BssStatus ->
                 assign(bss, "status", nonzero(read_u32(payload)))
          [] sub_attr.nla_type = BssBssid ->
                 assign(bss, "bssid", parse_macaddr(sub_attr.payload))
          [] sub_attr.nla_type = BssSignalMbm ->
                 assign(bss, "signal", read_i32(payload))
          [] OTHER -> Ok(bss)

\* A loop body that reads a top-level attribute other than the container as
\* if it were a sub-attribute.
BssBody_flat(bss, attr) ==
    IF attr.nla_type # AttrBss THEN BssSubBody(bss, attr)
    ELSE LET sub_handle == get_nested_attributes(attr)
         IN  IF sub_handle.kind = "Ok"
             THEN for_each(BssSubBody, bss, sub_handle.val)
             ELSE sub_handle

BssBody(bss, attr) ==
    IF attr.nla_type # AttrBss THEN Ok(bss)
    ELSE LET sub_handle == get_nested_attributes(attr)
         IN  IF sub_handle.kind = "Ok"
             THEN for_each(BssSubBody, bss, sub_handle.val)
             ELSE sub_handle

BssFromHandle(handle) == for_each(BssBody, BssDefault, handle)

\* `println!("{:?}", attr)`, the first statement of the loop's body: one line
\* on the standard output for every top-level attribute the loop reaches.
BssPrinted(handle) ==
    SubSeq(handle, 1, for_each_visited(BssBody, BssDefault, handle))

(***************************************************************************)
(* Station::from_handle                                                    *)
(***************************************************************************)
\* A record whose counter starts at zero instead of absent.
StationDefault_zeroed ==
    [average_signal |-> None, beacon_loss |-> Some(0), bssid |-> None,
     connected_time |-> None, rx_bitrate |-> None, rx_packets |-> None,
     signal |-> None, tx_bitrate |-> None, tx_failed |-> None,
     tx_packets |-> None, tx_retries |-> None]

StationDefault ==
    [average_signal |-> None, beacon_loss |-> None, bssid |-> None,
     connected_time |-> None, rx_bitrate |-> None, rx_packets |-> None,
     signal |-> None, tx_bitrate |-> None, tx_failed |-> None,
     tx_packets |-> None, tx_retries |-> None]

\* A loop body that decodes every attribute of the rate-info container.
StationRateBody_any(station, field, sub_sub_attr) ==
    assign(station, field, parse_u32(sub_sub_attr.payload))

\* The loop over a rate-info container: only BITRATE32 is looked at.
StationRateBody(station, field, sub_sub_attr) ==
    IF sub_sub_attr.nla_type = RateInfoBitrate32
    THEN assign(station, field, parse_u32(sub_sub_attr.payload))
    ELSE Ok(station)

\* A rate-info container that fills the field of the other direction.
StationRate_crossed(station, field, sub_attr) ==
    LET bit_rate_handle == unwrap(get_nested_attributes(sub_attr))
        other == IF field = "rx_bitrate" THEN "tx_bitrate" ELSE "rx_bitrate"
        Body(st, a) == StationRateBody(st, other, a)
    IN  IF bit_rate_handle.kind = "Ok"
        THEN for_each(Body, station, bit_rate_handle.val)
        ELSE bit_rate_handle

StationRate(station, field, sub_attr) ==
    LET bit_rate_handle == unwrap(get_nested_attributes(sub_attr))
        Body(st, a) == StationRateBody(st, field, a)
    IN  IF bit_rate_handle.kind = "Ok"
        THEN for_each(Body, station, bit_rate_handle.val)
        ELSE bit_rate_handle

\* A match that reads the signal as an unsigned byte.
StationSubBody_unsigned(station, sub_attr) ==
    CASE sub_attr.nla_type = StaInfoSignal ->
             assign(station, "signal",
                    IF Len(sub_attr.payload) = 1
                    THEN Ok(from_le_bytes(sub_attr.payload))
                    ELSE parse_i8(sub_attr.payload))
      [] sub_attr.nla_type = StaInfoSignalAvg ->
             assign(station, "average_signal", parse_i8(sub_attr.payload))
      [] sub_attr.nla_type = StaInfoBeaconLoss ->
             assign(station, "beacon_loss", parse_u32(sub_attr.payload))
      [] sub_attr.nla_type = StaInfoConnectedTime ->
             assign(station, "connected_time", parse_u32(sub_attr.payload))
      [] sub_attr.nla_type = StaInfoRxPackets ->
             assign(station, "rx_packets", parse_u32(sub_attr.payload))
      [] sub_attr.nla_type = StaInfoTxPackets ->
             assign(station, "tx_packets", parse_u32(sub_attr.payload))
      [] sub_attr.nla_type = StaInfoTxRetries ->
             assign(station, "tx_retries", parse_u32(sub_attr.payload))
      [] sub_attr.nla_type = StaInfoTxFailed ->
             assign(station, "tx_failed", parse_u32(sub_attr.payload))
      [] sub_attr.nla_type = StaInfoRxBitrate ->
             StationRate(station, "rx_bitrate", sub_attr)
      [] sub_attr.nla_type = StaInfoTxBitrate ->
             StationRate(station, "tx_bitrate", sub_attr)
      [] OTHER -> Ok(station)

StationSubBody(station, sub_attr) ==
    CASE sub_attr.nla_type = StaInfoSignal ->
             assign(station, "signal", parse_i8(sub_attr.payload))
      [] sub_attr.nla_type = StaInfoSignalAvg ->
             assign(station, "average_signal", parse_i8(sub_attr.payload))
      [] sub_attr.nla_type = StaInfoBeaconLoss ->
             assign(station, "beacon_loss", parse_u32(sub_attr.payload))
      [] sub_attr.nla_type = StaInfoConnectedTime ->
             assign(station, "connected_time", parse_u32(sub_attr.payload))
      [] sub_attr.nla_type = StaInfoRxPackets ->
             assign(station, "rx_packets", parse_u32(sub_attr.payload))
      [] sub_attr.nla_type = StaInfoTxPackets ->
             assign(station, "tx_packets", parse_u32(sub_attr.payload))
      [] sub_attr.nla_type = StaInfoTxRetries ->
             assign(station, "tx_retries", parse_u32(sub_attr.payload))
      [] sub_attr.nla_type = StaInfoTxFailed ->
             assign(station, "tx_failed", parse_u32(sub_attr.payload))
      [] sub_attr.nla_type = StaInfoRxBitrate ->
             StationRate(station, "rx_bitrate", sub_attr)
      [] sub_attr.nla_type = StaInfoTxBitrate ->
             StationRate(station, "tx_bitrate", sub_attr)
      [] OTHER -> Ok(station)

\* A loop body that takes a container no reader accepts for an empty one.
StationBody_skip_unreadable(station, attr) ==
    CASE attr.nla_type = AttrMac ->
             assign(station, "bssid", parse_macaddr(attr.payload))
      [] attr.nla_type = AttrStaInfo ->
             LET sub_handle == get_nested_attributes(attr)
             IN  IF sub_handle.kind = "Ok"
                 THEN for_each(StationSubBody, station, sub_handle.val)
                 ELSE Ok(station)
      [] OTHER -> Ok(station)

StationBody(station, attr) ==
    CASE attr.nla_type = AttrMac ->
             assign(station, "bssid", parse_macaddr(attr.payload))
      [] attr.nla_type = AttrStaInfo ->
             LET sub_handle == get_nested_attributes(attr)
             IN  IF sub_handle.kind = "Ok"
                 THEN for_each(StationSubBody, station, sub_handle.val)
                 ELSE sub_handle
      [] OTHER -> Ok(station)

StationFromHandle(handle) == for_each(StationBody, StationDefault, handle)

(***************************************************************************)
(* Inputs: the wire encoding of a container's payload, and the pools the   *)
(* handles and slices of the checked calls are drawn from                  *)
(***************************************************************************)
MaxAttrs == 2

MaxCalls == 3

Attr(t, p) == [nla_type |-> t, payload |-> p]

le16(n) == <<n % 256, n \div 256>>

zeros(n) == [i \in 1..n |-> 0]

\* One attribute as the kernel writes it: header, payload, padding.
nla(attr) ==
    LET len == NlaHeaderLen + Len(attr.payload)
    IN  le16(len) \o le16(attr.nla_type) \o attr.payload
            \o zeros(nla_align(len) - len)

RECURSIVE encode(_)
encode(attrs) ==
    IF attrs = <<>> THEN <<>> ELSE nla(Head(attrs)) \o encode(Tail(attrs))

\* Container payloads no reader accepts: a record cut short, a declared
\* length below the header size, a header cut short.
MalformedPayloads ==
    {<<8, 0, 5, 0, 134, 1>>, <<3, 0, 5, 0>>, <<8, 0>>}

U32Payloads == {<<3, 0, 0, 0>>, <<0, 0, 0, 0>>, <<3, 0, 0>>, <<3, 0, 0, 0, 9>>}

MacPayloads ==
    {<<255, 255, 255, 255, 255, 255>>, <<46, 46, 46, 46, 46>>,
     <<1, 2, 3, 4, 5, 6, 7, 8>>}

InterfacePool ==
    {Attr(t, p) : t \in {AttrIfindex, AttrWiphy}, p \in U32Payloads}
    \cup {Attr(AttrWiphyFreq, p) : p \in {<<108, 9, 0, 0>>, <<108, 9>>}}
    \cup {Attr(AttrChannelWidth, p) : p \in {<<1, 0, 0, 0>>, <<1, 0, 0, 0, 0, 0>>}}
    \cup {Attr(AttrWiphyTxPowerLevel, p) : p \in {<<164, 6, 0, 0>>, <<>>}}
    \cup {Attr(AttrWdev, p) : p \in {<<1, 0, 0, 0, 0, 0, 0, 0>>, <<1, 0, 0, 0>>,
                                     <<1, 0, 0, 0, 0, 0, 0, 0, 7>>}}
    \cup {Attr(AttrSsid, p) : p \in {<<101, 100, 117>>, <<0, 101, 0, 117, 0, 0>>}}
    \cup {Attr(AttrIfname, p) : p \in {<<119, 108, 48, 0>>, <<>>}}
    \cup {Attr(AttrMac, p) : p \in MacPayloads}
    \cup {Attr(AttrIftype, <<2, 0, 0, 0>>), Attr(AttrGeneration, <<5, 0, 0>>)}

BssSubPool ==
    {Attr(BssBssid, p) : p \in MacPayloads}
    \cup {Attr(BssFrequency, p) : p \in {<<108, 9, 0, 0>>, <<108, 9, 0>>,
                                         <<108, 9, 0, 0, 1>>}}
    \cup {Attr(BssBeaconInterval, p) : p \in {<<100, 0>>, <<0, 0>>, <<100>>,
                                              <<100, 0, 7, 0>>}}
    \cup {Attr(BssSeenMsAgo, p) : p \in {<<100, 0, 0, 0>>, <<>>}}
    \cup {Attr(BssStatus, p) : p \in {<<1, 0, 0, 0>>, <<0, 0, 0, 0>>, <<0, 1, 0, 0>>,
                                      <<0, 0, 0, 0, 1>>}}
    \cup {Attr(BssSignalMbm, p) : p \in {<<76, 235, 255, 255>>, <<0, 0, 0, 0>>,
                                         <<76, 235>>, <<76, 235, 255, 255, 255>>}}
    \cup {Attr(BssTsf, <<1, 2, 3, 4, 5, 6, 7, 8>>)}

RateHandles ==
    LET b32a == Attr(RateInfoBitrate32, <<134, 1, 0, 0>>)
        b32b == Attr(RateInfoBitrate32, <<0, 0, 0, 0>>)
        b32short == Attr(RateInfoBitrate32, <<134, 1>>)
        b16 == Attr(RateInfoBitrate, <<134, 1>>)
    IN  {<<>>, <<b32a>>, <<b16, b32a>>, <<b32a, b32b>>, <<b32short>>, <<b16>>}

RatePayloads ==
    {encode(h) : h \in RateHandles} \cup {<<8, 0, 5, 0, 134, 1>>}

StaSubPool ==
    {Attr(StaInfoSignal, p) : p \in {<<218>>, <<0>>, <<218, 0>>, <<>>}}
    \cup {Attr(StaInfoSignalAvg, p) : p \in {<<215>>}}
    \cup {Attr(StaInfoBeaconLoss, p) : p \in {<<0, 0, 0, 0>>, <<0, 0, 0>>}}
    \cup {Attr(StaInfoConnectedTime, p) : p \in {<<17, 27, 0, 0>>}}
    \cup {Attr(StaInfoRxPackets, p) : p \in {<<226, 128, 7, 0>>}}
    \cup {Attr(StaInfoTxPackets, p) : p \in {<<9, 170, 2, 0>>}}
    \cup {Attr(StaInfoTxRetries, p) : p \in {<<27, 130, 0, 0>>}}
    \cup {Attr(StaInfoTxFailed, p) : p \in {<<47, 0, 0, 0>>, <<47, 0, 0, 0, 0>>}}
    \cup {Attr(t, p) : t \in {StaInfoRxBitrate, StaInfoTxBitrate}, p \in RatePayloads}
    \cup {Attr(StaInfoInactiveTime, <<248, 2, 0>>)}

\* Byte slices of every length from 0 to 9.
Slices ==
    {SubSeq(s, 1, n) : n \in 0..9,
        s \in {<<1, 0, 0, 0, 0, 0, 0, 0, 0>>, <<218, 255, 255, 127, 0, 0, 0, 0, 1>>,
               <<0, 72, 0, 73, 0, 0, 0, 0, 0>>}}

\* Four bytes with the sign bit set: -5300, -1 and the least i32.
SignedSlices == {<<76, 235, 255, 255>>, <<255, 255, 255, 255>>, <<0, 0, 0, 128>>}

Primitives ==
    {"parse_i8", "parse_u16", "parse_u32", "parse_i32", "parse_u64",
     "parse_macaddr", "parse_string"}

HandleCall(fn, handle) == [fn |-> fn, handle |-> handle, slice |-> <<>>]

SliceCall(fn, slice) == [fn |-> fn, handle |-> <<>>, slice |-> slice]

\* What the reader is run on.  Records with payloads of 0 to 5 bytes (so
\* with 0 to 3 padding bytes), two of them with the same tag.
ReaderPool ==
    {Attr(RateInfoBitrate32, <<>>), Attr(StaInfoSignal, <<218>>),
     Attr(BssBeaconInterval, <<100, 0>>), Attr(StaInfoInactiveTime, <<248, 2, 0>>),
     Attr(BssFrequency, <<108, 9, 0, 0>>), Attr(BssFrequency, <<133, 9, 0, 0>>),
     Attr(AttrSsid, <<101, 100, 117, 114, 111>>)}

\* What follows the last whole record: nothing, a record that declares less
\* than a header (3, and 0), a header cut short, a record that declares more
\* than is left.
ReaderTails ==
    {<<>>, <<3, 0, 5, 0>>, <<0, 0, 0, 0>>, <<8, 0>>, <<9, 0, 5, 0, 134, 1, 0, 0>>}

\* Buffers whose padding bytes are not zero, and one whose type field has
\* the flag bits set.
ReaderExtra ==
    {<<5, 0, 7, 0, 218, 9, 9, 9, 8, 0, 2, 0, 108, 9, 0, 0>>,
     <<6, 0, 4, 0, 100, 0, 7, 7, 5, 0, 7, 0, 218, 1, 1, 1>>,
     <<8, 0, 2, 128, 108, 9, 0, 0>>}

\* The calls a sequence of calls is made of.
ReplayCalls ==
    {HandleCall("Interface", h) :
        h \in {<<>>, <<Attr(AttrIfindex, <<3, 0, 0, 0>>)>>,
               <<Attr(AttrIfname, <<119, 108, 48, 0>>)>>,
               <<Attr(AttrMac, <<46, 46, 46, 46, 46>>)>>}}
    \cup {HandleCall("Bss", h) :
        h \in {<<>>, <<Attr(AttrBss, encode(<<Attr(BssStatus, <<0, 0, 0, 0>>)>>))>>,
               <<Attr(AttrBss, encode(<<Attr(BssFrequency, <<108, 9, 0, 0>>)>>))>>}}
    \cup {HandleCall("Station", h) :
        h \in {<<>>, <<Attr(AttrMac, <<46, 46, 46, 46, 46, 46>>)>>,
               <<Attr(AttrStaInfo, encode(<<Attr(StaInfoSignal, <<218>>)>>))>>}}

(***************************************************************************)
(* The state machine.  call is the call being made (the function and its   *)
(* argument), result its outcome ("Pending" until the function has run),   *)
(* stdout what the call wrote on the standard output, hist the earlier     *)
(* calls of the process with their outcomes, threads the calls that run    *)
(* at the same time on threads of their own (none but under SpecThreads),  *)
(* pass the position of a build inside its loops (none but under           *)
(* SpecPass).                                                              *)
(***************************************************************************)
Pending == [kind |-> "Pending", val |-> <<>>, err |-> "none"]

NoCall == [fn |-> "none", handle |-> <<>>, slice |-> <<>>]

\* The handles of the tests: test_parser of interface.rs, and the recognized
\* part of the containers of test_parse (bss.rs) and test_parser (station.rs).
ScenarioInterface ==
    <<Attr(AttrIfindex, <<3, 0, 0, 0>>),
      Attr(AttrIfname, <<119, 108, 112, 53, 115, 48>>),
      Attr(AttrWiphy, <<0, 0, 0, 0>>),
      Attr(AttrIftype, <<2, 0, 0, 0>>),
      Attr(AttrWdev, <<1, 0, 0, 0, 0, 0, 0, 0>>),
      Attr(AttrMac, <<255, 255, 255, 255, 255, 255>>),
      Attr(AttrGeneration, <<5, 0, 0, 0>>),
      Attr(AttrWiphyFreq, <<108, 9, 0, 0>>),
      Attr(AttrChannelWidth, <<1, 0, 0, 0>>),
      Attr(AttrWiphyTxPowerLevel, <<164, 6, 0, 0>>),
      Attr(AttrSsid, <<101, 100, 117, 114, 111, 97, 109>>)>>

ScenarioBss ==
    <<Attr(AttrGeneration, <<28, 4, 0, 0>>),
      Attr(AttrIfindex, <<3, 0, 0, 0>>),
      Attr(AttrWdev, <<1, 0, 0, 0, 0, 0, 0, 0>>),
      Attr(AttrBss,
           <<10, 0, 1, 0, 255, 255, 255, 255, 255, 255, 0, 0,
             12, 0, 3, 0, 132, 12, 93, 163, 39, 0, 0, 0,
             6, 0, 4, 0, 100, 0, 0, 0, 6, 0, 5, 0, 17, 21, 0, 0,
             8, 0, 2, 0, 108, 9, 0, 0, 8, 0, 12, 0, 0, 0, 0, 0,
             8, 0, 10, 0, 100, 0, 0, 0, 8, 0, 7, 0, 76, 235, 255, 255,
             8, 0, 9, 0, 1, 0, 0, 0>>)>>

ScenarioStation ==
    <<Attr(AttrMac, <<46, 46, 46, 46, 46, 46>>),
      Attr(AttrStaInfo,
           <<8, 0, 16, 0, 17, 27, 0, 0, 8, 0, 1, 0, 248, 2, 0, 0,
             5, 0, 7, 0, 218, 0, 0, 0, 5, 0, 13, 0, 215, 0, 0, 0,
             28, 0, 8, 0, 8, 0, 5, 0, 16, 4, 0, 0, 6, 0, 1, 0, 16, 4, 0, 0,
             5, 0, 2, 0, 13, 0, 0, 0,
             28, 0, 14, 0, 8, 0, 5, 0, 134, 1, 0, 0, 6, 0, 1, 0, 134, 1, 0, 0,
             5, 0, 2, 0, 4, 0, 0, 0,
             8, 0, 9, 0, 226, 128, 7, 0, 8, 0, 10, 0, 9, 170, 2, 0,
             8, 0, 11, 0, 27, 130, 0, 0, 8, 0, 12, 0, 47, 0, 0, 0,
             8, 0, 18, 0, 0, 0, 0, 0>>)>>

\* An Interface handle: up to MaxAttrs attributes of the pool, or the test's.
InitInterface ==
    \/ \E k \in 0..MaxAttrs : \E h \in [1..k -> InterfacePool] :
           call = HandleCall("Interface", h)
    \/ call = HandleCall("Interface", ScenarioInterface)

\* A Bss handle: a scan result holds one BSS container; before and after it
\* stand attributes of the top-level namespace, two of which have the number
\* of a BSS sub-tag: WIPHY (1, as BSS_BSSID) with a payload of an address's
\* length, IFNAME (4, as BSS_BEACON_INTERVAL) with a payload that reads as a
\* container.  Also: no container, and two containers.
InitBss ==
    \/ \E pre \in {<<>>, <<Attr(AttrWiphy, <<255, 255, 255, 255, 255, 255>>)>>,
                     <<Attr(AttrIfname,
                            encode(<<Attr(BssFrequency, <<108, 9, 0, 0>>)>>))>>},
          post \in {<<>>, <<Attr(AttrGeneration, <<28, 4, 0, 0>>)>>} :
           \/ \E k \in 0..MaxAttrs : \E subs \in [1..k -> BssSubPool] :
                  call = HandleCall("Bss", pre \o <<Attr(AttrBss, encode(subs))>> \o post)
           \/ \E p \in MalformedPayloads :
                  call = HandleCall("Bss", pre \o <<Attr(AttrBss, p)>> \o post)
    \/ \E a, b \in {Attr(BssFrequency, <<108, 9, 0, 0>>),
                    Attr(BssFrequency, <<133, 9, 0, 0>>),
                    Attr(BssStatus, <<1, 0, 0>>)} :
           call = HandleCall("Bss", <<Attr(AttrBss, encode(<<a>>)),
                                      Attr(AttrBss, encode(<<b>>))>>)
    \/ \E h \in {<<>>, <<Attr(AttrIfindex, <<3, 0, 0, 0>>)>>, ScenarioBss} :
           call = HandleCall("Bss", h)

\* A Station handle: the peer's address and one STA_INFO container.  Also: a
\* top-level attribute that has the number of the sub-tag SIGNAL (7).
InitStation ==
    \/ \E pre \in {<<>>, <<Attr(AttrMac, <<46, 46, 46, 46, 46, 46>>)>>},
          post \in {<<>>, <<Attr(AttrGeneration, <<5, 0, 0, 0>>)>>} :
           \/ \E k \in 0..MaxAttrs : \E subs \in [1..k -> StaSubPool] :
                  call = HandleCall("Station",
                                    pre \o <<Attr(AttrStaInfo, encode(subs))>> \o post)
           \/ \E p \in MalformedPayloads :
                  call = HandleCall("Station", pre \o <<Attr(AttrStaInfo, p)>> \o post)
    \/ \E p \in MacPayloads,
          post \in {<<>>, <<Attr(AttrMac, <<46, 46, 46, 46, 46, 46>>)>>,
                    <<Attr(AttrStaInfo, encode(<<Attr(StaInfoSignal, <<218, 0>>)>>))>>,
                    <<Attr(StaInfoSignal, <<218>>),
                      Attr(AttrStaInfo, encode(<<Attr(StaInfoSignalAvg, <<215>>)>>))>>} :
           call = HandleCall("Station", <<Attr(AttrMac, p)>> \o post)
    \/ \E h \in {<<>>, ScenarioStation} : call = HandleCall("Station", h)

InitPrimitive ==
    \/ \E fn \in Primitives, s \in Slices : call = SliceCall(fn, s)
    \/ \E s \in SignedSlices : call = SliceCall("parse_i32", s)

\* A container's payload handed to the reader: the encoding of up to
\* MaxAttrs records followed by a tail, or cut at any length.
InitReader ==
    \/ \E k \in 0..MaxAttrs : \E attrs \in [1..k -> ReaderPool] :
           \/ \E tail \in ReaderTails :
                  call = SliceCall("get_nested_attributes", encode(attrs) \o tail)
           \/ \E n \in 0..Len(encode(attrs)) :
                  call = SliceCall("get_nested_attributes",
                                   SubSeq(encode(attrs), 1, n))
    \/ \E buf \in ReaderExtra \cup {ScenarioBss[4].payload, ScenarioStation[2].payload} :
           call = SliceCall("get_nested_attributes", buf)

Init ==
    /\ InitInterface \/ InitBss \/ InitStation \/ InitPrimitive \/ InitReader
    /\ result = Pending
    /\ stdout = <<>>
    /\ hist = <<>>
    /\ threads = <<>>
    /\ pass = <<>>
    /\ transport = <<>>

Running(fn) == call.fn = fn /\ result.kind = "Pending"

DecodeInterface ==
    /\ Running("Interface")
    /\ result' = InterfaceFromHandle(call.handle)
    /\ UNCHANGED <<call, stdout, hist, threads, pass, transport>>

DecodeBss ==
    /\ Running("Bss")
    /\ result' = BssFromHandle(call.handle)
    /\ stdout' = stdout \o BssPrinted(call.handle)
    /\ UNCHANGED <<call, hist, threads, pass, transport>>

DecodeStation ==
    /\ Running("Station")
    /\ result' = StationFromHandle(call.handle)
    /\ UNCHANGED <<call, stdout, hist, threads, pass, transport>>

ParseI8 ==
    /\ Running("parse_i8")
    /\ result' = parse_i8(call.slice)
    /\ UNCHANGED <<call, stdout, hist, threads, pass, transport>>

ParseU16 ==
    /\ Running("parse_u16")
    /\ result' = parse_u16(call.slice)
    /\ UNCHANGED <<call, stdout, hist, threads, pass, transport>>

ParseU32 ==
    /\ Running("parse_u32")
    /\ result' = parse_u32(call.slice)
    /\ UNCHANGED <<call, stdout, hist, threads, pass, transport>>

ParseI32 ==
    /\ Running("parse_i32")
    /\ result' = parse_i32(call.slice)
    /\ UNCHANGED <<call, stdout, hist, threads, pass, transport>>

ParseU64 ==
    /\ Running("parse_u64")
    /\ result' = parse_u64(call.slice)
    /\ UNCHANGED <<call, stdout, hist, threads, pass, transport>>

ParseMacaddr ==
    /\ Running("parse_macaddr")
    /\ result' = parse_macaddr(call.slice)
    /\ UNCHANGED <<call, stdout, hist, threads, pass, transport>>

ParseString ==
    /\ Running("parse_string")
    /\ result' = Ok(parse_string(call.slice))
    /\ UNCHANGED <<call, stdout, hist, threads, pass, transport>>

\* The reader run on a container's payload, as bss.rs:72 and station.rs:46,
\* 74, 83 run it.
GetNestedAttributes ==
    /\ Running("get_nested_attributes")
    /\ result' = get_nested_attributes(Attr(AttrBss, call.slice))
    /\ UNCHANGED <<call, stdout, hist, threads, pass, transport>>

Next ==
    \/ DecodeInterface
    \/ DecodeBss
    \/ DecodeStation
    \/ ParseI8
    \/ ParseU16
    \/ ParseU32
    \/ ParseI32
    \/ ParseU64
    \/ ParseMacaddr
    \/ ParseString
    \/ GetNestedAttributes

Spec == Init /\ [][Next]_vars

\* A process that makes one call after the other: the caller starts the next
\* call once the last one has ended (returned, or unwound to a caller that
\* caught the panic).
Invoke ==
    /\ result.kind # "Pending"
    /\ Len(hist) < MaxCalls - 1
    /\ \E c \in ReplayCalls : call' = c
    /\ result' = Pending
    /\ hist' = IF call.fn = "none" THEN hist
               ELSE Append(hist, [call |-> call, result |-> result])
    /\ stdout' = <<>>
    /\ UNCHANGED <<threads, pass, transport>>

InitCalls ==
    /\ call = NoCall
    /\ result = Ok(<<>>)
    /\ stdout = <<>>
    /\ hist = <<>>
    /\ threads = <<>>
    /\ pass = <<>>
    /\ transport = <<>>

NextCalls ==
    \/ Invoke
    \/ DecodeInterface
    \/ DecodeBss
    \/ DecodeStation

SpecCalls == InitCalls /\ [][NextCalls]_vars

(***************************************************************************)
(* Calls on several threads.  Each thread runs one builder on a handle of  *)
(* its own; a step is one turn of a thread's loop over its handle, and the *)
(* turns of the threads interleave in any order.  The standard output is   *)
(* the process's: what a thread prints goes to the one stream, here with   *)
(* the thread that wrote it.                                               *)
(***************************************************************************)
Threads == {"t1", "t2"}

DefaultOf(fn) ==
    CASE fn = "Interface" -> InterfaceDefault
      [] fn = "Bss" -> BssDefault
      [] fn = "Station" -> StationDefault

BodyOf(fn, acc, attr) ==
    CASE fn = "Interface" -> InterfaceBody(acc, attr)
      [] fn = "Bss" -> BssBody(acc, attr)
      [] fn = "Station" -> StationBody(acc, attr)

\* The call a thread starts: the record is new, the loop at the handle's
\* first attribute.
Started(c) == [call |-> c, pos |-> 1, acc |-> DefaultOf(c.fn), result |-> Pending]

InitThreads ==
    /\ call = NoCall
    /\ result = Ok(<<>>)
    /\ stdout = <<>>
    /\ hist = <<>>
    /\ threads \in [Threads -> {Started(c) : c \in ReplayCalls}]
    /\ pass = <<>>
    /\ transport = <<>>

\* One turn of the loop of thread t: in Bss::from_handle the attribute is
\* printed first; then the body runs on it, and either the record is updated
\* or the function is left with the error.
ThreadIterate(t) ==
    LET th == threads[t]
        attr == th.call.handle[th.pos]
        r == BodyOf(th.call.fn, th.acc, attr)
    IN  /\ th.result.kind = "Pending"
        /\ th.pos <= Len(th.call.handle)
        /\ stdout' = IF th.call.fn = "Bss"
                      THEN Append(stdout, [thread |-> t, line |-> attr])
                      ELSE stdout
        /\ threads' = [threads EXCEPT ![t] =
                           IF r.kind = "Ok"
                           THEN [th EXCEPT !.acc = r.val, !.pos = th.pos + 1]
                           ELSE [th EXCEPT !.result = r]]
        /\ UNCHANGED <<call, result, hist, pass, transport>>

\* The loop of thread t is over: Ok(record).
ThreadReturn(t) ==
    /\ threads[t].result.kind = "Pending"
    /\ threads[t].pos > Len(threads[t].call.handle)
    /\ threads' = [threads EXCEPT ![t].result = Ok(threads[t].acc)]
    /\ UNCHANGED <<call, result, stdout, hist, pass, transport>>

NextThreads ==
    \E t \in Threads : ThreadIterate(t) \/ ThreadReturn(t)

SpecThreads == InitThreads /\ [][NextThreads]_vars

(***************************************************************************)
(* One build, loop turn by loop turn at every nesting level.  pass.frames  *)
(* is the stack of the loops the build is inside (the outermost first):    *)
(* the attribute sequence a loop goes through, the position of its next    *)
(* attribute, where its container lies (path) and, for a rate-info loop,   *)
(* the field it fills.  pass.record is the accumulator, pass.visited the   *)
(* attributes a loop body was entered for, each named by its path (its     *)
(* position at the top level, then inside its container, ...).             *)
(***************************************************************************)
Frame(attrs, path, field) ==
    [attrs |-> attrs, pos |-> 1, path |-> path, field |-> field]

\* The handles a pass is run on: the address or a top-level attribute no
\* builder knows, then one container of up to MaxAttrs sub-attributes, some
\* of which fail to decode, then one more attribute.
PassInterfacePool ==
    {Attr(AttrIfindex, <<3, 0, 0, 0>>), Attr(AttrIfindex, <<3, 0, 0>>),
     Attr(AttrMac, <<46, 46, 46, 46, 46>>), Attr(AttrIftype, <<2, 0, 0, 0>>)}

PassBssPool ==
    {Attr(BssFrequency, <<108, 9, 0, 0>>), Attr(BssFrequency, <<108, 9, 0>>),
     Attr(BssBssid, <<46, 46, 46, 46, 46>>), Attr(BssTsf, <<1, 2, 3, 4, 5, 6, 7, 8>>)}

PassStaPool ==
    {Attr(StaInfoSignal, <<218>>), Attr(StaInfoSignal, <<>>),
     Attr(StaInfoInactiveTime, <<248, 2, 0>>),
     Attr(StaInfoRxBitrate,
          encode(<<Attr(RateInfoBitrate, <<134, 1>>),
                   Attr(RateInfoBitrate32, <<134, 1, 0, 0>>)>>)),
     Attr(StaInfoTxBitrate, <<8, 0, 5, 0, 134, 1>>)}

InitPassCall ==
    \/ \E k \in 0..MaxAttrs : \E h \in [1..k -> PassInterfacePool] :
           call = HandleCall("Interface", h)
    \/ \E pre \in {<<>>, <<Attr(AttrWiphy, <<255, 255, 255, 255, 255, 255>>)>>},
          post \in {<<>>, <<Attr(AttrBss, encode(<<Attr(BssStatus, <<1, 0, 0, 0>>)>>))>>} :
           \/ \E k \in 0..MaxAttrs : \E subs \in [1..k -> PassBssPool] :
                  call = HandleCall("Bss", pre \o <<Attr(AttrBss, encode(subs))>> \o post)
           \/ call = HandleCall("Bss", pre \o <<Attr(AttrBss, <<3, 0, 5, 0>>)>> \o post)
    \/ \E pre \in {<<>>, <<Attr(AttrMac, <<46, 46, 46, 46, 46, 46>>)>>},
          post \in {<<>>, <<Attr(AttrMac, <<46, 46, 46, 46, 46>>)>>} :
           \/ \E k \in 0..MaxAttrs : \E subs \in [1..k -> PassStaPool] :
                  call = HandleCall("Station",
                                    pre \o <<Attr(AttrStaInfo, encode(subs))>> \o post)
           \/ call = HandleCall("Station",
                                 pre \o <<Attr(AttrStaInfo, <<3, 0, 5, 0>>)>> \o post)
    \/ \E c \in {HandleCall("Interface", ScenarioInterface),
                  HandleCall("Bss", ScenarioBss),
                  HandleCall("Station", ScenarioStation)} : call = c

InitPass ==
    /\ InitPassCall
    /\ result = Pending
    /\ stdout = <<>>
    /\ hist = <<>>
    /\ threads = <<>>
    /\ pass = [frames |-> <<Frame(call.handle, <<>>, "none")>>,
               record |-> DefaultOf(call.fn), visited |-> <<>>]
    /\ transport = <<>>

\* The loop the build is in, and how deep it is nested.
Depth == Len(pass.frames)

Loop == pass.frames[Depth]

\* Whether the loop body resolves the attribute as a container: the BSS
\* attribute (bss.rs:68-72), STA_INFO (station.rs:45-46), RX_BITRATE and
\* TX_BITRATE inside it (station.rs:73-75, 82-84).
Opens(fn, depth, attr) ==
    \/ fn = "Bss" /\ depth = 1 /\ attr.nla_type = AttrBss
    \/ fn = "Station" /\ depth = 1 /\ attr.nla_type = AttrStaInfo
    \/ fn = "Station" /\ depth = 2
           /\ attr.nla_type \in {StaInfoRxBitrate, StaInfoTxBitrate}

\* The read of the container: with `?`, but unwrapped for the rate-info.
Open(fn, depth, attr) ==
    IF fn = "Station" /\ depth = 2
    THEN unwrap(get_nested_attributes(attr))
    ELSE get_nested_attributes(attr)

\* What the loop body does with an attribute that it does not resolve.
Leaf(fn, depth, field, record, attr) ==
    CASE fn = "Interface" -> InterfaceBody(record, attr)
      [] fn = "Bss" /\ depth = 1 -> Ok(record)
      [] fn = "Bss" /\ depth = 2 -> BssSubBody(record, attr)
      [] fn = "Station" /\ depth = 1 -> StationBody(record, attr)
      [] fn = "Station" /\ depth = 2 -> StationSubBody(record, attr)
      [] fn = "Station" /\ depth = 3 -> StationRateBody(record, field, attr)

\* A loop that begins every turn at its first attribute again.
Advance_restart(frames) == [frames EXCEPT ![Len(frames)].pos = 1]

\* The loop's iterator moves to the next attribute.
Advance(frames) == [frames EXCEPT ![Len(frames)].pos = @ + 1]

\* One turn of the innermost loop: its next attribute is taken (and printed
\* by the outer loop of Bss::from_handle); a container is read and its loop
\* entered, any other attribute goes through the match.  A failure ends
\* the build with the record dropped.
PassVisit ==
    /\ result.kind = "Pending"
    /\ Depth >= 1
    /\ Loop.pos <= Len(Loop.attrs)
    /\ LET attr == Loop.attrs[Loop.pos]
           path == Append(Loop.path, Loop.pos)
           field == CASE attr.nla_type = StaInfoRxBitrate -> "rx_bitrate"
                      [] attr.nla_type = StaInfoTxBitrate -> "tx_bitrate"
                      [] OTHER -> "none"
           r == IF Opens(call.fn, Depth, attr)
                THEN Open(call.fn, Depth, attr)
                ELSE Leaf(call.fn, Depth, Loop.field, pass.record, attr)
       IN  /\ stdout' = IF call.fn = "Bss" /\ Depth = 1
                         THEN Append(stdout, attr) ELSE stdout
           /\ result' = IF r.kind = "Ok" THEN result ELSE r
           /\ pass' = [frames |->
                           IF r.kind # "Ok" THEN Advance(pass.frames)
                           ELSE IF Opens(call.fn, Depth, attr)
                           THEN Append(Advance(pass.frames),
                                       Frame(r.val, path, field))
                           ELSE Advance(pass.frames),
                       record |->
                           IF r.kind = "Ok" /\ ~Opens(call.fn, Depth, attr)
                           THEN r.val ELSE pass.record,
                       visited |-> Append(pass.visited, path)]
    /\ UNCHANGED <<call, hist, threads, transport>>

\* An inner loop is over: the build is back in the loop around it.
PassLeave ==
    /\ result.kind = "Pending"
    /\ Depth >= 2
    /\ Loop.pos > Len(Loop.attrs)
    /\ pass' = [pass EXCEPT !.frames = SubSeq(pass.frames, 1, Depth - 1)]
    /\ UNCHANGED <<call, result, stdout, hist, threads, transport>>

\* The outermost loop is over: Ok(record).
PassReturn ==
    /\ result.kind = "Pending"
    /\ Depth = 1
    /\ Loop.pos > Len(Loop.attrs)
    /\ result' = Ok(pass.record)
    /\ UNCHANGED <<call, stdout, hist, threads, pass, transport>>

NextPass ==
    \/ PassVisit
    \/ PassLeave
    \/ PassReturn

\* A running build is a thread that runs: it is not held back for ever.
SpecPass == InitPass /\ [][NextPass]_vars /\ WF_vars(NextPass)

(***************************************************************************)
(* Interface::get_station_info (interface.rs:36-43).  The Socket it uses   *)
(* is the Transport collaborator: socket.rs is not among these sources, so *)
(* Socket::connect and Socket::get_station_info are what the contract of   *)
(* the collaborator says: connect opens a socket or fails, get-station     *)
(* sends one request parameterized by the interface index and hands the    *)
(* one buffer of the reply to Station::from_handle, or fails.  `transport` *)
(* is what the collaborator has been asked to do, in order.                *)
(***************************************************************************)
Connected == [op |-> "connect", index |-> None]

Requested(index) == [op |-> "get_station", index |-> Some(index)]

\* Socket::connect(): a socket, or the error of the resolution or the bind.
ConnectOutcomes == {Ok("socket"), Err("connect")}

\* The buffers a get-station reply may hold.
StationReplyHandles ==
    {<<>>,
     <<Attr(AttrMac, <<46, 46, 46, 46, 46, 46>>)>>,
     <<Attr(AttrMac, <<46, 46, 46, 46, 46>>)>>,
     <<Attr(AttrStaInfo, encode(<<Attr(StaInfoSignal, <<218>>)>>))>>,
     <<Attr(AttrStaInfo, encode(<<Attr(StaInfoSignal, <<>>)>>))>>,
     <<Attr(AttrStaInfo, <<3, 0, 5, 0>>)>>,
     ScenarioStation}

\* Socket::get_station_info(index): the Station built from the reply, or
\* the error of the exchange.
StationReplies ==
    {Err("netlink")} \cup {StationFromHandle(h) : h \in StationReplyHandles}

\* A get_station_info that opens the socket before it looks at the index.
get_station_info_connect_first(self, connected, reply) ==
    IF connected.kind # "Ok"
    THEN [result |-> connected, asked |-> <<Connected>>]
    ELSE IF self.index # None
    THEN [result |-> reply, asked |-> <<Connected, Requested(self.index[1])>>]
    ELSE [result |-> Err("Invalid interface index {:?}"),
          asked |-> <<Connected>>]

\* if let Some(index) = self.index { Socket::connect()?.get_station_info(index) }
\* else { Err(NlError::new("Invalid interface index {:?}")) }
\* with the outcome of connect and the reply of the exchange given: what is
\* returned, and what the collaborator was asked to do.
get_station_info(self, connected, reply) ==
    IF self.index # None
    THEN LET index == self.index[1]
         IN  IF connected.kind # "Ok"
             THEN [result |-> connected, asked |-> <<Connected>>]
             ELSE [result |-> reply,
                   asked |-> <<Connected, Requested(index)>>]
    ELSE [result |-> Err("Invalid interface index {:?}"), asked |-> <<>>]

InfoCall(self) ==
    [fn |-> "get_station_info", handle |-> <<>>, slice |-> <<>>, self |-> self]

\* The attributes of the interfaces get_station_info is called on.
InfoInterfacePool ==
    {Attr(AttrIfindex, <<3, 0, 0, 0>>), Attr(AttrIfindex, <<0, 0, 0, 0>>),
     Attr(AttrIfindex, <<7, 1, 0, 0>>), Attr(AttrWiphy, <<0, 0, 0, 0>>),
     Attr(AttrMac, <<46, 46, 46, 46, 46, 46>>),
     Attr(AttrIfname, <<119, 108, 97, 110, 48, 0>>)}

\* get_station_info is called on an Interface that Interface::from_handle
\* returned (Interface::default() is the one of the empty handle).
InitInfo ==
    /\ \E k \in 0..MaxAttrs : \E h \in [1..k -> InfoInterfacePool] :
           /\ InterfaceFromHandle(h).kind = "Ok"
           /\ call = InfoCall(InterfaceFromHandle(h).val)
    /\ result = Pending
    /\ stdout = <<>>
    /\ hist = <<>>
    /\ threads = <<>>
    /\ pass = <<>>
    /\ transport = <<>>

GetStationInfo ==
    /\ Running("get_station_info")
    /\ \E connected \in ConnectOutcomes, reply \in StationReplies :
           LET r == get_station_info(call.self, connected, reply)
           IN  /\ result' = r.result
               /\ transport' = transport \o r.asked
    /\ UNCHANGED <<call, stdout, hist, threads, pass>>

NextInfo == GetStationInfo

SpecInfo == InitInfo /\ [][NextInfo]_vars

(***************************************************************************)
(* What the claims speak of                                                *)
(***************************************************************************)
Done(fn) == call.fn = fn /\ result.kind # "Pending"

Has(attrs, tag) == \E i \in 1..Len(attrs) : attrs[i].nla_type = tag

\* The payload of the last attribute of the sequence that has the tag.
LastOf(attrs, tag) ==
    LET last == CHOOSE i \in 1..Len(attrs) :
                    /\ attrs[i].nla_type = tag
                    /\ \A j \in (i + 1)..Len(attrs) : attrs[j].nla_type # tag
    IN  attrs[last].payload

\* The attributes found inside the containers with the given tag, in wire
\* order (those of a container no reader accepts left out).
RECURSIVE Nested(_, _)
Nested(attrs, tag) ==
    IF attrs = <<>> THEN <<>>
    ELSE LET inner == parse_attrs(Head(attrs).payload)
         IN  (IF Head(attrs).nla_type = tag /\ inner.kind = "Ok"
              THEN inner.val ELSE <<>>) \o Nested(Tail(attrs), tag)

\* The width in bytes of the fixed-width fields, by tag.
InterfaceWidth ==
    [t \in {AttrIfindex, AttrWiphyFreq, AttrChannelWidth, AttrWiphyTxPowerLevel,
            AttrWiphy} |-> 4] @@ (AttrWdev :> 8)

BssWidth ==
    [t \in {BssFrequency, BssSeenMsAgo, BssStatus, BssSignalMbm} |-> 4]
        @@ (BssBeaconInterval :> 2)

WrongWidth(attrs, width) ==
    \E i \in 1..Len(attrs) :
        /\ attrs[i].nla_type \in DOMAIN width
        /\ Len(attrs[i].payload) # width[attrs[i].nla_type]

FixedWidthPrimitives ==
    "parse_i8" :> 1 @@ "parse_u16" :> 2 @@ "parse_u32" :> 4 @@ "parse_i32" :> 4
        @@ "parse_u64" :> 8

\* C1: in the Interface and Bss builders a recognized fixed-width tag whose
\* payload is shorter or longer than the field's width always makes
\* from_handle return an error.
C1_WrongWidthIsAnError ==
    /\ Done("Interface") /\ WrongWidth(call.handle, InterfaceWidth)
           => result.kind = "Err"
    /\ Done("Bss") /\ WrongWidth(Nested(call.handle, AttrBss), BssWidth)
           => result.kind = "Err"

C3_StationAlwaysReturns ==
    Done("Station") =>
        /\ result.kind \in {"Ok", "Err"}
        /\ result.kind = "Err" => result.val = <<>>

\* The builder of the call, applied to another handle.
FromHandle(fn, handle) ==
    CASE fn = "Interface" -> InterfaceFromHandle(handle)
      [] fn = "Bss" -> BssFromHandle(handle)
      [] fn = "Station" -> StationFromHandle(handle)

BadAddress(attr, tag) ==
    attr.nla_type = tag /\ Len(attr.payload) \notin {6, 8}

\* C4: parse_macaddr succeeds exactly on 6 and 8 bytes and returns an
\* InvalidAddressLength error value on every other length; a builder that
\* reaches a MAC (Interface, Station) or BSS_BSSID (Bss) attribute with such
\* a payload returns that error.
C4_AddressLength ==
    /\ Done("parse_macaddr") =>
           IF Len(call.slice) \in {6, 8}
           THEN result.kind = "Ok" /\ result.val = call.slice
           ELSE result.kind = "Err" /\ result.err = "InvalidAddressLength"
    /\ \A fn \in {"Interface", "Station"} :
           Done(fn) =>
               \A i \in 1..Len(call.handle) :
                   /\ BadAddress(call.handle[i], AttrMac)
                   /\ FromHandle(fn, SubSeq(call.handle, 1, i - 1)).kind = "Ok"
                   => result.kind = "Err" /\ result.err = "InvalidAddressLength"
    /\ Done("Bss") =>
           \A i \in 1..Len(call.handle) :
               LET subs == parse_attrs(call.handle[i].payload)
               IN  /\ call.handle[i].nla_type = AttrBss
                   /\ BssFromHandle(SubSeq(call.handle, 1, i - 1)).kind = "Ok"
                   /\ subs.kind = "Ok"
                   => \A j \in 1..Len(subs.val) :
                          /\ BadAddress(subs.val[j], BssBssid)
                          /\ for_each(BssSubBody, BssDefault,
                                      SubSeq(subs.val, 1, j - 1)).kind = "Ok"
                          => result.kind = "Err"
                                 /\ result.err = "InvalidAddressLength"

C4_Witness ==
    /\ Done("Bss")
    /\ \E j \in 1..Len(Nested(call.handle, AttrBss)) :
           /\ j > 1
           /\ BadAddress(Nested(call.handle, AttrBss)[j], BssBssid)
    /\ result.kind = "Err"
    /\ result.err = "InvalidAddressLength"

(***************************************************************************)
(* The mapping tables the specification gives (section 4.4): tag, field    *)
(* and the field's type, one table per namespace                           *)
(***************************************************************************)
Entry(tag, field, type) == [tag |-> tag, field |-> field, type |-> type]

InterfaceTable ==
    {Entry(AttrIfindex, "index", "u32"), Entry(AttrSsid, "ssid", "string"),
     Entry(AttrMac, "mac", "address"), Entry(AttrIfname, "name", "string"),
     Entry(AttrWiphyFreq, "frequency", "u32"),
     Entry(AttrChannelWidth, "channel", "u32"),
     Entry(AttrWiphyTxPowerLevel, "power", "u32"),
     Entry(AttrWiphy, "phy", "u32"), Entry(AttrWdev, "device", "u64")}

BssTable ==
    {Entry(BssBssid, "bssid", "address"), Entry(BssFrequency, "frequency", "u32"),
     Entry(BssBeaconInterval, "beacon_interval", "u16"),
     Entry(BssSeenMsAgo, "seen_ms_ago", "u32"),
     Entry(BssSignalMbm, "signal", "i32"), Entry(BssStatus, "status", "bool")}

StationTable == {Entry(AttrMac, "bssid", "address")}

StaInfoTable ==
    {Entry(StaInfoSignal, "signal", "i8"),
     Entry(StaInfoSignalAvg, "average_signal", "i8"),
     Entry(StaInfoBeaconLoss, "beacon_loss", "u32"),
     Entry(StaInfoConnectedTime, "connected_time", "u32"),
     Entry(StaInfoRxPackets, "rx_packets", "u32"),
     Entry(StaInfoTxPackets, "tx_packets", "u32"),
     Entry(StaInfoTxRetries, "tx_retries", "u32"),
     Entry(StaInfoTxFailed, "tx_failed", "u32")}

RxRateTable == {Entry(RateInfoBitrate32, "rx_bitrate", "u32")}

TxRateTable == {Entry(RateInfoBitrate32, "tx_bitrate", "u32")}

Tags(table) == {e.tag : e \in table}

WidthOf(type) ==
    CASE type = "i8" -> 1
      [] type = "u16" -> 2
      [] type \in {"u32", "i32", "bool"} -> 4
      [] type = "u64" -> 8

\* The value of a payload of the type's exact width (of any length for a
\* string, of 6 or 8 bytes for an address), as the specification reads it.
ValueOf(type, payload) ==
    CASE type \in {"u16", "u32", "u64"} -> from_le_bytes(payload)
      [] type \in {"i8", "i32"} -> signed_from_le_bytes(payload)
      [] type = "bool" -> from_le_bytes(payload) # 0
      [] type = "string" -> parse_string(payload)
      [] type = "address" -> payload

WellFormed(type, payload) ==
    CASE type = "string" -> TRUE
      [] type = "address" -> Len(payload) \in {6, 8}
      [] OTHER -> Len(payload) = WidthOf(type)

\* The attribute sequences a call's record is filled from, with the table
\* that applies to each: the handle itself, and the contents of its
\* containers.
Levels(fn, handle) ==
    CASE fn = "Interface" -> {<<handle, InterfaceTable>>}
      [] fn = "Bss" -> {<<Nested(handle, AttrBss), BssTable>>}
      [] fn = "Station" ->
             LET info == Nested(handle, AttrStaInfo)
             IN  {<<handle, StationTable>>, <<info, StaInfoTable>>,
                  <<Nested(info, StaInfoRxBitrate), RxRateTable>>,
                  <<Nested(info, StaInfoTxBitrate), TxRateTable>>}

Builders == {"Interface", "Bss", "Station"}

Keep(attrs, tags) == SelectSeq(attrs, LAMBDA a : a.nla_type \in tags)

MapSeq(F(_), attrs) == [i \in 1..Len(attrs) |-> F(attrs[i])]

\* A container with its contents replaced by F of them (left as it is when
\* no reader accepts it).
Inside(attr, F(_)) ==
    LET inner == parse_attrs(attr.payload)
    IN  IF inner.kind = "Ok" THEN Attr(attr.nla_type, encode(F(inner.val)))
        ELSE attr

StripRate(attrs) == Keep(attrs, {RateInfoBitrate32})

StripStaInfo(attrs) ==
    MapSeq(LAMBDA a : IF a.nla_type \in {StaInfoRxBitrate, StaInfoTxBitrate}
                      THEN Inside(a, StripRate) ELSE a,
           Keep(attrs, Tags(StaInfoTable) \cup {StaInfoRxBitrate, StaInfoTxBitrate}))

StripBssInfo(attrs) == Keep(attrs, Tags(BssTable))

\* The handle with every attribute removed, at every nesting level, whose tag
\* is not in the mapping table of its level.
Strip(fn, handle) ==
    CASE fn = "Interface" -> Keep(handle, Tags(InterfaceTable))
      [] fn = "Bss" ->
             MapSeq(LAMBDA a : Inside(a, StripBssInfo), Keep(handle, {AttrBss}))
      [] fn = "Station" ->
             MapSeq(LAMBDA a : IF a.nla_type = AttrStaInfo
                               THEN Inside(a, StripStaInfo) ELSE a,
                    Keep(handle, {AttrMac, AttrStaInfo}))

\* C5: in every builder and at every nesting level an attribute whose tag
\* is not in the level's table is skipped: the outcome of the build is that
\* of the same handle with all unrecognized attributes removed, and a handle
\* of unrecognized attributes only yields the empty record, not an error.
C5_UnknownTagsAreSkipped ==
    \A fn \in Builders :
        Done(fn) =>
            /\ SameOutcome(result, FromHandle(fn, Strip(fn, call.handle)))
            /\ Strip(fn, call.handle) = <<>> =>
                   /\ result.kind = "Ok"
                   /\ \A f \in DOMAIN result.val : result.val[f] = None

C5_Witness ==
    /\ Done("Station")
    /\ Has(Nested(call.handle, AttrStaInfo), StaInfoInactiveTime)
    /\ Has(call.handle, AttrGeneration)
    /\ Has(Nested(Nested(call.handle, AttrStaInfo), StaInfoRxBitrate), RateInfoBitrate)
    /\ result.kind = "Ok"
    /\ result.val.rx_bitrate # None

Count(attrs, tag) == Cardinality({i \in 1..Len(attrs) : attrs[i].nla_type = tag})

\* What the builders' decoders make of a payload, by field type.
DecodeAs(fn, type, payload) ==
    CASE type = "string" -> parse_string(payload)
      [] type = "address" -> parse_macaddr(payload).val
      [] type = "i8" -> parse_i8(payload).val
      [] type = "u16" -> read_u16(payload).val
      [] type = "u32" /\ fn = "Station" -> parse_u32(payload).val
      [] type = "u32" /\ fn # "Station" -> read_u32(payload).val
      [] type = "i32" -> read_i32(payload).val
      [] type = "u64" -> read_u64(payload).val
      [] type = "bool" -> nonzero(read_u32(payload)).val

\* C6: when a recognized tag occurs more than once at one level and the
\* build succeeds, the field holds the decode of the last occurrence in wire
\* order.
C6_LastOccurrenceWins ==
    \A fn \in Builders :
        Done(fn) /\ result.kind = "Ok" =>
            \A level \in Levels(fn, call.handle) :
                \A e \in level[2] :
                    Count(level[1], e.tag) >= 2 =>
                        result.val[e.field]
                            = Some(DecodeAs(fn, e.type, LastOf(level[1], e.tag)))

C6_Witness ==
    /\ Done("Bss")
    /\ result.kind = "Ok"
    /\ Count(Nested(call.handle, AttrBss), BssFrequency) = 2
    /\ Len(Nested(call.handle, AttrBss)[1].payload) = 4
    /\ Len(Nested(call.handle, AttrBss)[2].payload) = 4
    /\ Nested(call.handle, AttrBss)[1].payload # Nested(call.handle, AttrBss)[2].payload
    /\ result.val.frequency = Some(from_le_bytes(Nested(call.handle, AttrBss)[2].payload))

\* C7: after a successful build a field is Some exactly when an attribute
\* with its tag occurred at its level; an attribute that decodes to zero
\* yields Some(0), or Some(false) for the Bss status, never None.
C7_PresenceFollowsAttributes ==
    \A fn \in Builders :
        Done(fn) /\ result.kind = "Ok" =>
            \A level \in Levels(fn, call.handle) :
                \A e \in level[2] :
                    /\ result.val[e.field] # None <=> Has(level[1], e.tag)
                    /\ /\ Has(level[1], e.tag)
                       /\ e.type \notin {"string", "address"}
                       /\ LastOf(level[1], e.tag) = zeros(WidthOf(e.type))
                       => result.val[e.field]
                              = Some(IF e.type = "bool" THEN FALSE ELSE 0)

C7_Witness ==
    /\ Done("Bss")
    /\ result.kind = "Ok"
    /\ result.val.status = Some(FALSE)
    /\ result.val.beacon_interval = Some(0)
    /\ result.val.frequency = None

\* The calls of the process that have ended, the last one included.
Ended ==
    IF call.fn # "none" /\ result.kind # "Pending"
    THEN Append(hist, [call |-> call, result |-> result])
    ELSE hist

FieldsFollow(record, attrs, table) ==
    \A e \in table :
        IF ~Has(attrs, e.tag) THEN record[e.field] = None
        ELSE /\ record[e.field] # None
             /\ WellFormed(e.type, LastOf(attrs, e.tag))
                    => record[e.field] = Some(ValueOf(e.type, LastOf(attrs, e.tag)))

C10_BssMapping ==
    Done("Bss") /\ result.kind = "Ok" =>
        LET subs == Nested(call.handle, AttrBss)
        IN  /\ DOMAIN result.val = {e.field : e \in BssTable}
            /\ FieldsFollow(result.val, subs, BssTable)
            /\ /\ Has(subs, BssSignalMbm)
               /\ LastOf(subs, BssSignalMbm) = <<76, 235, 255, 255>>
               => result.val.signal = Some(-5300)

C10_Witness ==
    /\ Done("Bss")
    /\ result.kind = "Ok"
    /\ Has(Nested(call.handle, AttrBss), BssTsf)
    /\ result.val.signal = Some(-5300)
    /\ result.val.status = Some(TRUE)
    /\ result.val.beacon_interval = Some(100)
    /\ result.val.frequency = Some(2412)

\* C11: Bss::from_handle reads BSS sub-tags inside a top-level BSS container
\* only.  A top-level attribute that is not the container changes nothing,
\* whatever its tag (also one that is the number of a BSS sub-tag) and its
\* payload (also one no reader accepts, or one that reads as sub-attributes):
\* the outcome is that of the containers alone, and without a container it is
\* the record with every field absent.
C11_OnlyInsideBssContainer ==
    Done("Bss") =>
        /\ SameOutcome(result, BssFromHandle(Keep(call.handle, {AttrBss})))
        /\ ~Has(call.handle, AttrBss) =>
               /\ result.kind = "Ok"
               /\ \A f \in DOMAIN result.val : result.val[f] = None
        /\ result.kind = "Ok" =>
               \A e \in BssTable :
                   result.val[e.field] # None
                       => Has(Nested(call.handle, AttrBss), e.tag)

C11_Witness ==
    /\ Done("Bss")
    /\ result.kind = "Ok"
    /\ \E i \in 1..Len(call.handle) :
           /\ call.handle[i].nla_type = BssBeaconInterval
           /\ parse_attrs(call.handle[i].payload).kind = "Ok"
           /\ Has(parse_attrs(call.handle[i].payload).val, BssFrequency)
    /\ Has(call.handle, AttrBss)
    /\ result.val.frequency = None
    /\ result.val.beacon_interval = None
    /\ result.val.status # None

StationFields ==
    {e.field : e \in StationTable \cup StaInfoTable \cup RxRateTable \cup TxRateTable}

\* C12: Station::from_handle sets bssid from the top-level MAC attribute and,
\* from the sub-attributes of the STA_INFO container only, signal and
\* average_signal as signed bytes (218 is -38) and beacon_loss,
\* connected_time, rx_packets, tx_packets, tx_retries, tx_failed as u32; a
\* sub-attribute sets its own field only, and no other sub-tag and no
\* top-level attribute with a sub-tag's number sets one.
C12_StationMapping ==
    Done("Station") /\ result.kind = "Ok" =>
        LET info == Nested(call.handle, AttrStaInfo)
        IN  /\ DOMAIN result.val = StationFields
            /\ FieldsFollow(result.val, call.handle, StationTable)
            /\ FieldsFollow(result.val, info, StaInfoTable)
            /\ \A e \in {x \in StaInfoTable : x.type = "i8"} :
                   /\ Has(info, e.tag)
                   /\ LastOf(info, e.tag) = <<218>>
                   => result.val[e.field] = Some(-38)

C12_Witness ==
    /\ Done("Station")
    /\ call.handle = ScenarioStation
    /\ result.kind = "Ok"
    /\ result.val.bssid = Some(<<46, 46, 46, 46, 46, 46>>)
    /\ result.val.signal = Some(-38)
    /\ result.val.average_signal = Some(-41)
    /\ result.val.beacon_loss = Some(0)
    /\ result.val.connected_time = Some(6929)
    /\ result.val.rx_packets = Some(491746)
    /\ result.val.tx_packets = Some(174601)
    /\ result.val.tx_retries = Some(33307)
    /\ result.val.tx_failed = Some(47)

\* A top-level attribute with the number of SIGNAL leaves the signal absent.
C12_WitnessTopLevel ==
    /\ Done("Station")
    /\ result.kind = "Ok"
    /\ Has(call.handle, StaInfoSignal)
    /\ result.val.signal = None
    /\ result.val.average_signal = Some(-41)

\* C13: in Station::from_handle rx_bitrate is set from a BITRATE32 attribute
\* inside an RX_BITRATE container only, and tx_bitrate from a BITRATE32
\* attribute inside a TX_BITRATE container only, both inside STA_INFO; every
\* other attribute of a rate-info container (the 16-bit BITRATE, MCS) is
\* ignored, and a container without BITRATE32 leaves the field absent.
C13_BitrateMapping ==
    Done("Station") /\ result.kind = "Ok" =>
        LET info == Nested(call.handle, AttrStaInfo)
            rx == Nested(info, StaInfoRxBitrate)
            tx == Nested(info, StaInfoTxBitrate)
        IN  /\ FieldsFollow(result.val, rx, RxRateTable)
            /\ FieldsFollow(result.val, tx, TxRateTable)
            /\ ~Has(rx, RateInfoBitrate32) => result.val.rx_bitrate = None
            /\ ~Has(tx, RateInfoBitrate32) => result.val.tx_bitrate = None

C13_Witness ==
    /\ Done("Station")
    /\ result.kind = "Ok"
    /\ LET info == Nested(call.handle, AttrStaInfo)
           rx == Nested(info, StaInfoRxBitrate)
           tx == Nested(info, StaInfoTxBitrate)
       IN  /\ Has(rx, RateInfoBitrate) /\ Has(rx, RateInfoBitrate32)
           /\ Has(info, StaInfoTxBitrate)
           /\ Has(tx, RateInfoBitrate) /\ ~Has(tx, RateInfoBitrate32)
    /\ result.val.rx_bitrate = Some(390)
    /\ result.val.tx_bitrate = None

(***************************************************************************)
(* The wire format as the specification words it (sections 4.2 and 6),     *)
(* read off the bytes of a buffer                                          *)
(***************************************************************************)
\* The next 4-byte boundary at or after n.
Boundary(n) == 4 * ((n + 3) \div 4)

\* The 2-byte little-endian field that starts off bytes into the buffer.
Field16(buf, off) == buf[off + 1] + 256 * buf[off + 2]

\* Where the i-th record starts when the records before it are the i - 1
\* first attributes: each takes its header, its payload and its padding.
RECURSIVE OffsetOf(_, _)
OffsetOf(attrs, i) ==
    IF i = 1 THEN 0
    ELSE OffsetOf(attrs, i - 1) + Boundary(4 + Len(attrs[i - 1].payload))

Read(fn) == Done(fn) /\ result.kind = "Ok"

\* C14: when a container's payload is read as a TLV sequence, the payload of
\* each attribute has exactly declared_length - 4 bytes, which are the bytes
\* after the header; the 0 to 3 padding bytes are not part of it, and the
\* next header is read at the next 4-byte boundary (a declared length of 5
\* gives a 1-byte payload and the next record 8 bytes later).
C14_PayloadAndPadding ==
    Read("get_nested_attributes") =>
        LET buf == call.slice
            attrs == result.val
        IN  /\ \A i \in 1..Len(attrs) :
                   LET off == OffsetOf(attrs, i)
                   IN  /\ off % 4 = 0
                       /\ off + 4 <= Len(buf)
                       /\ Len(attrs[i].payload) = Field16(buf, off) - 4
                       /\ off + Field16(buf, off) <= Len(buf)
                       /\ attrs[i].payload
                              = SubSeq(buf, off + 5, off + Field16(buf, off))
                       /\ Field16(buf, off) = 5 =>
                              /\ Len(attrs[i].payload) = 1
                              /\ OffsetOf(attrs, i + 1) = off + 8
            /\ OffsetOf(attrs, Len(attrs) + 1) >= Len(buf)

C14_Witness ==
    /\ Read("get_nested_attributes")
    /\ Len(result.val) = 2
    /\ Field16(call.slice, 0) = 5
    /\ SubSeq(call.slice, 6, 8) = <<9, 9, 9>>
    /\ result.val[1].payload = <<218>>
    /\ Field16(call.slice, 8) = 8
    /\ result.val[2].payload = <<108, 9, 0, 0>>

\* The records of a buffer in wire order, from off on: where each whole
\* record starts, and whether the walk ended at a record that is not whole
\* (it declares less than a header or more than is left, or its header is
\* cut short).
RECURSIVE Records(_, _)
Records(buf, off) ==
    IF off >= Len(buf) THEN [starts |-> <<>>, bad |-> FALSE]
    ELSE IF off + 4 > Len(buf) THEN [starts |-> <<>>, bad |-> TRUE]
    ELSE IF Field16(buf, off) < 4 \/ Field16(buf, off) > Len(buf) - off
         THEN [starts |-> <<>>, bad |-> TRUE]
    ELSE LET rest == Records(buf, Boundary(off + Field16(buf, off)))
         IN  [starts |-> <<off>> \o rest.starts, bad |-> rest.bad]

\* The tag and the payload bytes of the record that starts at off.
TagAt(buf, off) == Field16(buf, off + 2) % 16384

PayloadAt(buf, off) == SubSeq(buf, off + 5, off + Field16(buf, off))

\* The start of the last record of the buffer that has the tag.
LastRecord(buf, tag) ==
    LET starts == Records(buf, 0).starts
        last == CHOOSE i \in 1..Len(starts) :
                    /\ TagAt(buf, starts[i]) = tag
                    /\ \A j \in (i + 1)..Len(starts) : TagAt(buf, starts[j]) # tag
    IN  starts[last]

HasRecord(buf, tag) ==
    \E i \in 1..Len(Records(buf, 0).starts) :
        TagAt(buf, Records(buf, 0).starts[i]) = tag

\* The payload of the call's only container with the tag.
OnlyContainer(handle, tag) ==
    (CHOOSE a \in {handle[i] : i \in 1..Len(handle)} : a.nla_type = tag).payload

\* C15: the attribute sequence read from a container's payload lists the TLV
\* records in their wire order, one attribute per record, repeated tags kept
\* apart and in order; and the builders go through the attributes in that
\* order, so that of two records with one tag the later one in the payload
\* fills the field.
C15_WireOrder ==
    /\ Read("get_nested_attributes") =>
           LET starts == Records(call.slice, 0).starts
           IN  /\ Len(result.val) = Len(starts)
               /\ \A i \in 1..Len(starts) :
                      /\ result.val[i].nla_type = TagAt(call.slice, starts[i])
                      /\ result.val[i].payload = PayloadAt(call.slice, starts[i])
    /\ \A fn \in {"Bss", "Station"} :
           LET tag == IF fn = "Bss" THEN AttrBss ELSE AttrStaInfo
               table == IF fn = "Bss" THEN BssTable ELSE StaInfoTable
           IN  Read(fn) /\ Count(call.handle, tag) = 1 =>
                   LET buf == OnlyContainer(call.handle, tag)
                   IN  \A e \in table :
                           /\ HasRecord(buf, e.tag)
                           /\ WellFormed(e.type, PayloadAt(buf, LastRecord(buf, e.tag)))
                           => result.val[e.field]
                                  = Some(ValueOf(e.type,
                                                 PayloadAt(buf, LastRecord(buf, e.tag))))

C15_Witness ==
    /\ Read("get_nested_attributes")
    /\ Len(call.slice) = 16
    /\ TagAt(call.slice, 0) = BssFrequency
    /\ TagAt(call.slice, 8) = BssFrequency
    /\ result.val = <<Attr(BssFrequency, <<133, 9, 0, 0>>),
                      Attr(BssFrequency, <<108, 9, 0, 0>>)>>

\* Where the walk over the whole records of the buffer ends.
StopOf(buf) ==
    LET starts == Records(buf, 0).starts
    IN  IF starts = <<>> THEN 0
        ELSE Boundary(starts[Len(starts)] + Field16(buf, starts[Len(starts)]))

\* The buffer holds, after its whole records, a record whose declared length
\* is larger than what is left of the buffer or smaller than the header.
BadLength(buf) ==
    /\ StopOf(buf) + 2 <= Len(buf)
    /\ \/ Field16(buf, StopOf(buf)) > Len(buf) - StopOf(buf)
       \/ Field16(buf, StopOf(buf)) < 4

IsTruncatedBuffer(r) ==
    r.kind = "Err" /\ r.err = "TruncatedBuffer" /\ r.val = <<>>

\* The whole records of the buffer, as attributes.
WholeRecords(buf) ==
    [j \in 1..Len(Records(buf, 0).starts) |->
        Attr(TagAt(buf, Records(buf, 0).starts[j]),
             PayloadAt(buf, Records(buf, 0).starts[j]))]

\* The builder's pass over the attributes of one container.
SubBuild(fn, attrs) ==
    CASE fn = "Bss" -> for_each(BssSubBody, BssDefault, attrs)
      [] fn = "Station" -> for_each(StationSubBody, StationDefault, attrs)

\* C16: reading a container's payload fails with TruncatedBuffer whenever a
\* record declares more bytes than are left of the payload or fewer than the
\* 4 bytes of a header (0 also); no attribute is yielded then, and what is
\* yielded otherwise lies inside the payload.  Bss::from_handle (BSS) and
\* Station::from_handle (STA_INFO) return that error for the first such
\* container they reach.
C16_TruncatedBuffer ==
    /\ Done("get_nested_attributes") =>
           /\ BadLength(call.slice) => IsTruncatedBuffer(result)
           /\ result.kind = "Ok" =>
                  /\ ~Records(call.slice, 0).bad
                  /\ \A i \in 1..Len(result.val) :
                         OffsetOf(result.val, i) + 4 + Len(result.val[i].payload)
                             <= Len(call.slice)
    /\ \A fn \in {"Bss", "Station"} :
           Done(fn) =>
               \A i \in 1..Len(call.handle) :
                   /\ call.handle[i].nla_type
                          = (IF fn = "Bss" THEN AttrBss ELSE AttrStaInfo)
                   /\ BadLength(call.handle[i].payload)
                   /\ FromHandle(fn, SubSeq(call.handle, 1, i - 1)).kind = "Ok"
                   /\ SubBuild(fn, WholeRecords(call.handle[i].payload)).kind = "Ok"
                   => IsTruncatedBuffer(result)

C16_Witness ==
    /\ Done("get_nested_attributes")
    /\ Records(call.slice, 0).starts = <<0, 8>>
    /\ Len(call.slice) = 20
    /\ Field16(call.slice, 16) = 0
    /\ IsTruncatedBuffer(result)

\* The text without the NUL characters at its end: what is left up to its
\* last character that is not NUL.
WithoutTrailingNuls(text) ==
    LET kept == {i \in 1..Len(text) : text[i] # 0}
    IN  SubSeq(text, 1, IF kept = {} THEN 0
                        ELSE CHOOSE i \in kept : \A j \in kept : j <= i)

\* C17: parse_string fails on no byte sequence (the empty one included), and
\* its result is the lossily decoded text of the payload with the NUL bytes
\* at its end removed and nothing else changed: a NUL byte that is not at
\* the end is kept.
C17_TrailingNulsOnly ==
    Done("parse_string") =>
        /\ result.kind = "Ok"
        /\ result.val = WithoutTrailingNuls(from_utf8_lossy(call.slice))

\* C18: a decode call of a builder (Interface, Bss, Station) has no effect
\* but its result: when it has ended nothing has been written to the
\* standard output, and nothing but the result has changed.
C18_NoSideEffects ==
    \A fn \in Builders :
        Done(fn) => stdout = <<>> /\ hist = <<>>

\* The threads that have written to the standard output.
Writers == {stdout[i].thread : i \in 1..Len(stdout)}

\* C19: when decode calls run at the same time on threads of their own, each
\* on its own handle, then under every interleaving each call returns what
\* it returns when run alone, and no call writes what another call writes:
\* no two threads write to the one standard output.
C19_ThreadsAreIndependent ==
    /\ \A t \in Threads :
           threads[t].result.kind # "Pending" =>
               SameOutcome(threads[t].result,
                           FromHandle(threads[t].call.fn, threads[t].call.handle))
    /\ Cardinality(Writers) <= 1

\* The first half alone: each call returns what it returns when run alone.
C19_SameResultAsAlone ==
    \A t \in Threads :
        threads[t].result.kind # "Pending" =>
            SameOutcome(threads[t].result,
                        FromHandle(threads[t].call.fn, threads[t].call.handle))

\* Byte i (from 0) of the two's complement form of v: v divided i times by
\* 256, rounding down, modulo 256.
RECURSIVE ByteOf(_, _)
ByteOf(v, i) == IF i = 0 THEN v % 256 ELSE ByteOf(v \div 256, i - 1)

Signed(fn) == fn \in {"parse_i8", "parse_i32"}

\* C20: on a slice of exactly its width each numeric decoder returns the
\* little-endian value of the bytes (byte i is worth byte_i * 256^i), read
\* as two's complement by parse_i8 and parse_i32 and as unsigned by
\* parse_u16, parse_u32 and parse_u64: [1,0,0,0] is 1 as u32, [1,0] is 1 as
\* u16.
C20_LittleEndianValue ==
    \A fn \in DOMAIN FixedWidthPrimitives :
        Done(fn) /\ Len(call.slice) = FixedWidthPrimitives[fn] =>
            /\ result.kind = "Ok"
            /\ \A i \in 1..Len(call.slice) :
                   ByteOf(result.val, i - 1) = call.slice[i]
            /\ ~Signed(fn) => result.val >= 0
            /\ fn = "parse_i8" => result.val \in -128..127
            /\ fn = "parse_u16" => result.val < 65536
            /\ Signed(fn) =>
                   (result.val < 0 <=> call.slice[Len(call.slice)] >= 128)
            /\ call.slice \in {<<1, 0, 0, 0>>, <<1, 0>>} => result.val = 1

C20_Witness ==
    /\ Done("parse_i32")
    /\ call.slice = <<76, 235, 255, 255>>
    /\ result = Ok(-5300)

\* What the builder makes of one attribute on its own.
Alone(fn, attr) == FromHandle(fn, <<attr>>)

\* The first attribute of the handle, in wire order, that fails to decode.
FirstFailure(fn, handle, i) ==
    /\ Alone(fn, handle[i]).kind # "Ok"
    /\ \A j \in 1..(i - 1) : Alone(fn, handle[j]).kind = "Ok"

\* C21: a build stops at the first attribute, in wire order, that fails to
\* decode: the build returns an error, which is the error of that attribute
\* whatever comes after it (a later malformed attribute changes nothing),
\* and the fields set from the attributes before it are not returned.
C21_StopsAtFirstFailure ==
    \A fn \in Builders :
        Done(fn) =>
            \A i \in 1..Len(call.handle) :
                FirstFailure(fn, call.handle, i) =>
                    /\ result.kind = "Err"
                    /\ result.err = Alone(fn, call.handle[i]).err
                    /\ result.val = <<>>

\* The same with a panic counted as a way to fail: the build ends as its
\* first failing attribute ends on its own, and returns no record.
C21_FirstFailureDecides ==
    \A fn \in Builders :
        Done(fn) =>
            \A i \in 1..Len(call.handle) :
                FirstFailure(fn, call.handle, i) =>
                    /\ SameOutcome(result, Alone(fn, call.handle[i]))
                    /\ result.val = <<>>

\* The pass turn by turn ends as the function does, and prints what it prints.
PassAgrees ==
    result.kind # "Pending" /\ pass # <<>> =>
        /\ SameOutcome(result, FromHandle(call.fn, call.handle))
        /\ call.fn = "Bss" => stdout = BssPrinted(call.handle)

\* The tags a builder resolves as containers, by nesting depth.
ContainerTags(fn, depth) ==
    CASE fn = "Bss" /\ depth = 1 -> {AttrBss}
      [] fn = "Station" /\ depth = 1 -> {AttrStaInfo}
      [] fn = "Station" /\ depth = 2 -> {StaInfoRxBitrate, StaInfoTxBitrate}
      [] OTHER -> {}

\* The attributes of a sequence from the i-th on, each followed by those
\* inside it when it is a container that can be read, named by their paths:
\* all the attributes of a handle at all nesting levels, in wire order.
RECURSIVE PathsOf(_, _, _, _, _)
PathsOf(fn, depth, attrs, prefix, i) ==
    IF i > Len(attrs) THEN <<>>
    ELSE LET inner == parse_attrs(attrs[i].payload)
             inside == IF /\ attrs[i].nla_type \in ContainerTags(fn, depth)
                          /\ inner.kind = "Ok"
                       THEN PathsOf(fn, depth + 1, inner.val, Append(prefix, i), 1)
                       ELSE <<>>
         IN  <<Append(prefix, i)>> \o inside
                 \o PathsOf(fn, depth, attrs, prefix, i + 1)

AllPaths == PathsOf(call.fn, 1, call.handle, <<>>, 1)

IsPrefix(s, t) == Len(s) <= Len(t) /\ s = SubSeq(t, 1, Len(s))

PassEnded == pass # <<>> /\ result.kind # "Pending"

\* C22, as claimed: every build is a single forward pass in which each
\* attribute at each nesting level is visited exactly once, in order: when
\* the build has ended, the attributes it visited are all the attributes of
\* the handle, each once, in wire order.
C22_EveryAttributeOnce ==
    PassEnded => pass.visited = AllPaths

\* A count that every turn of a build raises: two for every attribute
\* visited, less one for every loop it is in and one for not having ended.
Spent ==
    2 * Len(pass.visited) - Depth
        - IF result.kind = "Pending" THEN 1 ELSE 0

\* C22, amended: every build terminates (a build that has not ended is in
\* a loop, every turn raises a count, and the count is bounded by the
\* number of attributes of the handle), and it is a single forward pass that stops at the first failure:
\* what it has visited is at all times a beginning of the handle's
\* attributes in wire order (so nothing is visited twice, out of order or
\* skipped), a turn visits one attribute more or none, a build that returns
\* a record has visited every attribute exactly once, and a build that has
\* ended visits nothing more.
C22_SingleForwardPass ==
    /\ [](pass # <<>> => IsPrefix(pass.visited, AllPaths))
    /\ [](pass # <<>> => Depth >= 1 /\ Spent < 2 * Len(AllPaths))
    /\ [](PassEnded /\ result.kind = "Ok" => pass.visited = AllPaths)
    /\ [][/\ Spent' > Spent
          /\ IsPrefix(pass.visited, pass'.visited)
          /\ Len(pass'.visited) <= Len(pass.visited) + 1
          /\ result.kind # "Pending" => pass' = pass]_vars

\* A Station build that failed part-way, after visiting attributes three levels deep.
C22_Witness ==
    /\ PassEnded
    /\ call.fn = "Station"
    /\ result.kind # "Ok"
    /\ \E i \in 1..Len(pass.visited) : Len(pass.visited[i]) = 3
    /\ Len(pass.visited) < Len(AllPaths)

\* C23: Interface::get_station_info on an Interface whose index is absent
\* returns an error without opening a socket or sending any request; a
\* socket is connected and a get-station request sent only when the index
\* is present, and the request then carries that index.
C23_NoIndexNoSocket ==
    call.fn = "get_station_info" =>
        /\ call.self.index = None =>
               /\ transport = <<>>
               /\ result.kind \in {"Pending", "Err"}
               /\ result.kind = "Err" =>
                      result.err = "Invalid interface index {:?}"
        /\ \A i \in 1..Len(transport) :
               /\ call.self.index # None
               /\ transport[i].op = "get_station" =>
                      /\ transport[i].index = call.self.index
                      /\ i > 1 /\ transport[i - 1].op = "connect"
        /\ call.self.index # None /\ result.kind # "Pending" =>
               /\ transport # <<>>
               /\ transport[1].op = "connect"
               /\ result.kind = "Ok" =>
                      /\ Len(transport) = 2
                      /\ transport[2] = Requested(call.self.index[1])

\* get_station_info has returned on an interface that has an address but no
\* index.
C23_Witness ==
    /\ Done("get_station_info")
    /\ call.self.index = None
    /\ call.self.mac # None
    /\ result.kind = "Err"

\* get_station_info has returned a Station on an interface with an index.
C23_WitnessPresent ==
    /\ Done("get_station_info")
    /\ call.self.index = Some(263)
    /\ result.kind = "Ok"
    /\ result.val.signal # None
    /\ transport = <<Connected, Requested(263)>>

====
